---- MODULE Spec2Model ----
(***************************************************************************)
(* A model of the zmq-communication request/response correlation layer:    *)
(* CommunicationClient (id counter, pending-call store, timeout sweeper,   *)
(* lazily bound inbound listener, outbound channel cache) and              *)
(* CommunicationServer (dispatcher, reply channel cache), joined by a      *)
(* one-way push/pull transport.                                            *)
(*                                                                         *)
(* JavaScript scalars are tagged records (Num7 is the number 7), objects   *)
(* are records.  A Map is a function whose domain is the set of its keys.  *)
(* A promise is a record holding its state and the number of times each of *)
(* its continuations has been invoked.  The event loop runs one callback   *)
(* at a time, so every handler is one atomic action.  A payload that the   *)
(* transport never delivers is one that stays queued for ever.             *)
(***************************************************************************)
EXTENDS Integers, Sequences, FiniteSets, TLC

(***************************************************************************)
(* Bounds of the model.                                                    *)
(***************************************************************************)
\* Number of ids the client may draw (send and fire together) when it runs
\* against arbitrary peers (ClientSpec).
MaxDraws == 5
\* Number of ids the client may draw when it runs against the server (Spec).
MaxSystemDraws == 2
\* The clock runs from 0 to MaxTime.
MaxTime == 4
\* Number of close() calls on the client.
MaxCloses == 2
\* Number of payloads foreign peers push to the pull sockets.
MaxForeign == 2
\* Number of listen() calls that fail which the model follows.
MaxListenErrors == 2
\* Number of ids the client may draw when its options vary (ConfigSpec).
MaxConfigDraws == 2
\* The wraparound ceiling.  The program's value is 10000000
\* (CommunicationClient.ts:25); the model scales it down so that the
\* counter wraps within MaxDraws draws.
MAX_ID == 3

(***************************************************************************)
(* Configuration and inputs.                                               *)
(***************************************************************************)
DEFAULT_PROTOCOL == "tcp"
DEFAULT_TIMEOUT == 250
CHECK_TIMEOUTS_INTERVAL == 100
MIN_PORT == 1024
MAX_PORT == 49151

\* The constructor options the model runs with; validateOptions accepts
\* them (defaultTimeout >= 2, checkTimeoutsInterval >= 1).
ClientOptions ==
    [bindPort |-> 2000, host |-> << "cli" >>,
     defaultTimeout |-> 2, checkTimeoutsInterval |-> 2]

\* The options ConfigSpec constructs clients with.  A host is the sequence
\* of the pieces of its string; a number option that is 0 is falsy, as is
\* one that is not given.
OptionSets ==
    [bindPort              : {1023, 2000, 49152},
     host                  : {<< "cli" >>, << "tcp", "://", "cli" >>},
     defaultTimeout        : {-1, 0, 1, 2, 3},
     checkTimeoutsInterval : {-1, 0, 1, 2}]

\* The per-call overrides ConfigSpec sends with (0: none given, or 0).
OverrideTimeouts == {-1, 0, 1, 2, 3}

ClientHost == "cli"
ClientBindPort == "2000"
ServerHost == "srv"
ServerPort == "3000"

\* host:port addresses a caller passes to send/fire: the server's, and one
\* where nothing ever listens.
ServerAddress == ServerHost \o ":" \o ServerPort
VoidAddress == "void:4000"
\* An address the transport refuses: connect() to its uri throws.
BadAddress == "bad"
Addresses == {ServerAddress, VoidAddress}

\* JavaScript scalars.
Num7 == [js |-> "number", repr |-> "7"]
NaN == [js |-> "number", repr |-> "NaN"]
Null == [js |-> "null", repr |-> "null"]
Undefined == [js |-> "undefined", repr |-> "undefined"]

\* params.timeout: 0 stands for "absent" (both are falsy for `||`).  The
\* callers of these specifications leave it unset.
TimeoutParams == {0}
ParamValues == {Num7}
Params == [value : ParamValues, timeout : TimeoutParams]
ConfigParams == [value : ParamValues, timeout : OverrideTimeouts]
Actions == {"echo"}

\* What the user-supplied request handler may return.
HandlerResults == {Num7, NaN, Undefined}
\* The handlers the server's owner passes to listen().
Handlers == {"onRequestA", "onRequestB"}
\* What the peers of ClientSpec are addressed by and answer with.
PeerAddresses == {VoidAddress}
PeerResults == {Num7}

(***************************************************************************)
(* State.                                                                  *)
(***************************************************************************)
VARIABLES
    now,                   \* Date.now()
    \* ---- new CommunicationClient(options)
    options,               \* the options given to the constructor
    instance,              \* "none" | "constructed" | the error the constructor threw
    \* ---- CommunicationClient fields
    defaultTimeout,
    checkTimeoutsInterval,
    nextId,
    callbackStorage,       \* Map id -> TCallbackInformation
    socketStorage,         \* Map uri -> push socket (the set of its keys)
    channels,              \* uri -> number of open push sockets connected to it
    bindSocket,            \* "null" | "open" | "closed"
    checkTimeoutsId,       \* the sweeper timer: [armed, at]
    \* ---- the client's callers and its 'error' listeners
    calls,                 \* the promises send() has returned, in order
    draws,                 \* history: number of getNextId() calls
    closeCount,            \* history: number of close() calls
    errorEvents,           \* history: number of 'error' events emitted
    stack,                 \* the client call that has not returned yet: <<>> or <<frame>>
    thrown,                \* history: number of exceptions thrown to the client's callers
    \* ---- transport
    wire,                  \* uri -> payloads pushed to uri and not yet pulled
    foreign,               \* history: payloads pushed by foreign peers
    \* ---- CommunicationServer fields
    listenSocket,          \* "null" | "open" | "closed"
    srvSocketStorage,      \* Map uri -> push socket (the set of its keys)
    srvChannels,           \* uri -> number of open push sockets connected to it
    handler,               \* this.onRequest: "undefined" or the handler given
    listenErrors,          \* history: the socket's state at each failed listen()
    suspended,             \* requests whose handler invocation has not completed
    answers,               \* history: [id, result] of the replies sent
    srvErrors              \* history: onRequest(err) calls

vars == << now, options, instance, defaultTimeout, checkTimeoutsInterval, nextId,
           callbackStorage, socketStorage, channels, bindSocket,
           checkTimeoutsId, calls, draws, closeCount, errorEvents, stack,
           thrown, wire, foreign, listenSocket, srvSocketStorage, srvChannels, handler,
           listenErrors, suspended, answers, srvErrors >>

clientVars == << options, instance, defaultTimeout, checkTimeoutsInterval, nextId,
                 callbackStorage, socketStorage, channels, bindSocket,
                 checkTimeoutsId, calls, draws, closeCount, errorEvents,
                 stack, thrown >>

\* The client's callers.
callVars == << stack, thrown >>

serverVars == << listenSocket, srvSocketStorage, srvChannels, handler,
                 listenErrors, suspended, answers, srvErrors >>

(***************************************************************************)
(* Addressing.                                                             *)
(***************************************************************************)
getUri(address) == DEFAULT_PROTOCOL \o "://" \o address

getBindUri == DEFAULT_PROTOCOL \o "://" \o ClientHost \o ":" \o ClientBindPort

getListenUri == DEFAULT_PROTOCOL \o "://" \o ServerHost \o ":" \o ServerPort

\* The uris a pull socket of the model binds.
BoundUris == {getBindUri, getListenUri}

(***************************************************************************)
(* Serialisation.                                                          *)
(***************************************************************************)
\* JSON has no NaN: JSON.stringify writes it as null.
JsonValue(v) == IF v = NaN THEN Null ELSE v

\* The keys JSON.stringify writes: a key whose value is undefined is left out.
JsonKeys(message) ==
    {k \in DOMAIN message : ~(k = "data" /\ message[k] = Undefined)}

\* JSON.stringify(message) of a request or a response record.
JSON_stringify(message) ==
    [ fmt  |-> "json",
      body |-> [k \in JsonKeys(message) |->
                  IF k = "data" THEN JsonValue(message[k])
                  ELSE IF k = "params"
                       THEN [message[k] EXCEPT !.value = JsonValue(@)]
                       ELSE message[k]] ]

\* A payload JSON.parse throws on.
GarbagePayload == [fmt |-> "garbage", body |-> "{"]

\* JSON.parse(message.toString())
JSON_parse(payload) ==
    IF payload.fmt = "json"
    THEN [ok |-> TRUE, value |-> payload.body]
    ELSE [ok |-> FALSE]

\* Reading a key of a decoded object: a missing key reads as undefined.
Get(object, key) == IF key \in DOMAIN object THEN object[key] ELSE Undefined

\* message.length, abstracted to the number of keys of the encoded object.
ByteLength(payload) ==
    IF payload.fmt = "json" THEN Cardinality(DOMAIN payload.body) ELSE 1

(***************************************************************************)
(* Promises.                                                               *)
(***************************************************************************)
NewPromise(message, epoch, draw) ==
    [ id          |-> message.id,
      createdAt   |-> message.createdAt,
      expiresAt   |-> message.expiresAt,
      draw        |-> draw,        \* which getNextId() call gave the id
      epoch       |-> epoch,       \* close() calls before the send
      state       |-> "pending",   \* "pending" | "resolved" | "rejected"
      outcome     |-> <<>>,        \* <<value or error>> once settled
      resolves    |-> 0,           \* resolve() calls by the listener
      timeouts    |-> 0,           \* reject(TimeoutError) calls by the sweeper
      closes      |-> 0,           \* reject(ClosedError) calls by close()
      overwritten |-> FALSE ]      \* its store entry was replaced by a later send

\* resolve(value) and reject(error): only the first call settles the promise.
Settled(p, st, v) ==
    IF p.state = "pending"
    THEN [p EXCEPT !.state = st, !.outcome = <<v>>]
    ELSE p

resolve(p, value) == [Settled(p, "resolved", value) EXCEPT !.resolves = @ + 1]

TransportError == [error |-> "TransportError"]
TimeoutError == [error |-> "TimeoutError"]
ClosedError == [error |-> "ClosedError"]

rejectTimeout(p) == [Settled(p, "rejected", TimeoutError) EXCEPT !.timeouts = @ + 1]

\* An async function that throws returns a rejected promise.
rejectThrown(p) == Settled(p, "rejected", TransportError)

rejectClosed(p) == [Settled(p, "rejected", ClosedError) EXCEPT !.closes = @ + 1]

(***************************************************************************)
(* Map and queue helpers.                                                  *)
(***************************************************************************)
\* A set that keeps the entry already stored under the key.
MapSet_keepsOld(m, k, v) == IF k \in DOMAIN m THEN m ELSE m @@ (k :> v)

\* Map.set(k, v).
MapSet(m, k, v) == [x \in DOMAIN m \cup {k} |-> IF x = k THEN v ELSE m[x]]

\* A delete that removes nothing.
MapDelete_keeps(m, ks) == m

\* Map.delete of every key in ks.
MapDelete(m, ks) == [x \in DOMAIN m \ ks |-> m[x]]

\* A cache that never finds a channel.
Cached_never(storage, uri) == FALSE

\* this.socketStorage.get(uri) finds a channel.
Cached(storage, uri) == uri \in storage

\* pushSocket.connect(uri) returns; it throws on a uri the transport refuses.
Connects(uri) == uri # DEFAULT_PROTOCOL \o "://" \o BadAddress

\* createPushSocket(uri): one more open push socket connected to uri.
Opened(open, uri) ==
    IF uri \in DOMAIN open THEN [open EXCEPT ![uri] = @ + 1] ELSE open @@ (uri :> 1)

\* pushSocket.close() on the cached socket of every uri in `uris`.
ClosedAll(open, uris) ==
    [u \in {x \in DOMAIN open : x \notin uris \/ open[x] > 1} |->
        IF u \in uris THEN open[u] - 1 ELSE open[u]]

\* pushSocket.send(payload) on the push socket connected to uri.  A payload
\* pushed towards a uri no pull socket ever binds stays in the push socket's
\* buffer and is seen by nobody: the model keeps the queues of the two
\* bindable uris only.
Push(uri, payload) ==
    IF uri \in DOMAIN wire THEN [wire EXCEPT ![uri] = Append(@, payload)] ELSE wire

RemoveAt(s, i) == [j \in 1..(Len(s) - 1) |-> IF j < i THEN s[j] ELSE s[j + 1]]

(***************************************************************************)
(* CommunicationClient.                                                    *)
(***************************************************************************)
\* `n || dflt` on a number option.
OrDefault(n, dflt) == IF n = 0 THEN dflt ELSE n

\* The options after the defaults of the constructor are filled in.
Defaulted(o) ==
    [o EXCEPT !.defaultTimeout = OrDefault(@, DEFAULT_TIMEOUT),
              !.checkTimeoutsInterval = OrDefault(@, CHECK_TIMEOUTS_INTERVAL)]

\* host.indexOf('://') !== -1
HasProtocolSeparator(host) == \E i \in 1..Len(host) : host[i] = "://"

\* validateOptions: "ok" or the error it throws.
validateOptions(o) ==
    IF o.bindPort < MIN_PORT \/ o.bindPort > MAX_PORT THEN "PortOutOfRange"
    ELSE IF HasProtocolSeparator(o.host) THEN "HostnameWithProtocol"
    ELSE IF o.defaultTimeout < 2 THEN "TimeoutTooSmall"
    ELSE IF o.checkTimeoutsInterval < 1 THEN "TimeoutCheckTooSmall"
    ELSE "ok"

\* The timing fields the constructor sets from valid options, at time 0.
constructor(o) ==
    [defaultTimeout        |-> Defaulted(o).defaultTimeout,
     checkTimeoutsInterval |-> Defaulted(o).checkTimeoutsInterval,
     checkTimeoutsId       |-> [armed |-> TRUE,
                                at    |-> Defaulted(o).checkTimeoutsInterval]]

\* new CommunicationClient(options): throws what validateOptions throws,
\* before any field is set and before the sweeper is armed.
construct ==
    /\ instance = "none"
    /\ IF validateOptions(Defaulted(options)) # "ok"
       THEN /\ instance' = validateOptions(Defaulted(options))
            /\ UNCHANGED << defaultTimeout, checkTimeoutsInterval, checkTimeoutsId >>
       ELSE /\ instance' = "constructed"
            /\ defaultTimeout' = constructor(options).defaultTimeout
            /\ checkTimeoutsInterval' = constructor(options).checkTimeoutsInterval
            /\ checkTimeoutsId' = constructor(options).checkTimeoutsId
    /\ UNCHANGED << now, options, nextId, callbackStorage, socketStorage,
                    channels, bindSocket, calls, draws, closeCount,
                    errorEvents, callVars, wire, foreign, serverVars >>

\* A counter that wraps one id early.
getNextId_early(n) ==
    [id |-> n, nextId |-> IF n + 1 >= MAX_ID THEN 0 ELSE n + 1]

\* getNextId(): the id handed out and the counter afterwards.
getNextId(n) ==
    [id |-> n, nextId |-> IF n + 1 > MAX_ID THEN 0 ELSE n + 1]

\* params.timeout || this.defaultTimeout
getTimeout(params, dflt) ==
    IF params.timeout # 0 THEN params.timeout ELSE dflt

\* The TRequestMessage sendRaw builds.
RequestMessage(action, params, responseWanted) ==
    [ id             |-> getNextId(nextId).id,
      createdAt      |-> now,
      action         |-> action,
      params         |-> params,
      responseWanted |-> responseWanted,
      expiresAt      |-> now + getTimeout(params, defaultTimeout),
      sourceUri      |-> getBindUri ]

\* Binding whatever the caller wants.
MustBind_always(socket, responseWanted) == socket = "null"

\* Whether sendRaw binds the inbound listener.
MustBind(socket, responseWanted) == socket = "null" /\ responseWanted

\* sendRaw throws: the address has no cached channel and connect() refuses
\* its uri.
Throws(address) ==
    ~Cached(socketStorage, getUri(address)) /\ ~Connects(getUri(address))

\* sendRaw: draw an id, bind the listener if needed, get or open the push
\* socket of the address, push the encoded request.  When connect() throws,
\* the id is drawn and the listener bound, and nothing is cached or pushed.
sendRaw(address, action, params, responseWanted) ==
    /\ nextId' = getNextId(nextId).nextId
    /\ draws' = draws + 1
    /\ bindSocket' = IF MustBind(bindSocket, responseWanted) THEN "open" ELSE bindSocket
    /\ socketStorage' = IF Throws(address)
                        THEN socketStorage
                        ELSE socketStorage \cup {getUri(address)}
    /\ channels' = IF Cached(socketStorage, getUri(address)) \/ Throws(address)
                   THEN channels
                   ELSE Opened(channels, getUri(address))
    /\ wire' = IF Throws(address)
               THEN wire
               ELSE Push(getUri(address),
                         JSON_stringify(RequestMessage(action, params, responseWanted)))

\* The entry send() stores for a request; `promise` is the index in `calls`
\* of the promise whose resolve/reject it holds.
CallbackInformation(message, promise) ==
    [ createdAt |-> message.createdAt,
      expiresAt |-> message.expiresAt,
      action    |-> message.action,
      sourceUri |-> message.sourceUri,
      promise   |-> promise ]

\* The times the sweeper timer fires from now on, while it stays armed.
SweepTimes ==
    IF checkTimeoutsId.armed
    THEN {t \in now..MaxTime : t >= checkTimeoutsId.at
                               /\ (t - checkTimeoutsId.at) % checkTimeoutsInterval = 0}
    ELSE {}

\* The clock stops at MaxTime: while the sweeper is armed a call is issued
\* only if a sweep at or after its expiry fits below MaxTime.
FitsHorizon(params) ==
    LET expiresAt == now + getTimeout(params, defaultTimeout)
    IN /\ expiresAt <= MaxTime
       /\ checkTimeoutsId.armed => \E t \in SweepTimes : expiresAt <= t

\* The calls after send() has stored a new entry under id.
Registered(id, promise) ==
    Append([i \in 1..Len(calls) |->
               IF id \in DOMAIN callbackStorage /\ callbackStorage[id].promise = i
               THEN [calls[i] EXCEPT !.overwritten = TRUE]
               ELSE calls[i]],
           promise)

send(address, action, params) ==
    /\ draws < MaxDraws
    /\ FitsHorizon(params)
    /\ sendRaw(address, action, params, TRUE)
    /\ LET message == RequestMessage(action, params, TRUE)
       IN IF Throws(address)
          THEN /\ calls' = Append(calls,
                                  rejectThrown(NewPromise(message, closeCount, draws)))
               /\ UNCHANGED callbackStorage
          ELSE /\ calls' = Registered(message.id, NewPromise(message, closeCount, draws))
               /\ callbackStorage' =
                      MapSet(callbackStorage, message.id,
                             CallbackInformation(message, Len(calls) + 1))
    /\ UNCHANGED << now, options, instance, defaultTimeout, checkTimeoutsInterval,
                    checkTimeoutsId, closeCount, errorEvents, callVars,
                    foreign, serverVars >>

fire(address, action, params) ==
    /\ draws < MaxDraws
    /\ sendRaw(address, action, params, FALSE)
    /\ thrown' = IF Throws(address) THEN thrown + 1 ELSE thrown
    /\ UNCHANGED << now, options, instance, defaultTimeout, checkTimeoutsInterval,
                    callbackStorage, checkTimeoutsId, calls, closeCount,
                    errorEvents, stack, foreign, serverVars >>

\* A caller that lets other callbacks run while its call has not returned.
RunToCompletion_preempted == TRUE

\* The event loop runs a callback, and the owner makes a call, only when no
\* call of the client is on the stack: send() and fireMulti() contain no
\* await.
RunToCompletion == stack = <<>>

\* send() up to the return of sendRaw: the request is transmitted, the
\* promise is not created yet.
sendTransmits(address, action, params) ==
    /\ stack = <<>>
    /\ draws < MaxDraws
    /\ FitsHorizon(params)
    /\ ~Throws(address)
    /\ sendRaw(address, action, params, TRUE)
    /\ stack' = << [op      |-> "send",
                    message |-> RequestMessage(action, params, TRUE),
                    draw    |-> draws] >>
    /\ UNCHANGED << now, options, instance, defaultTimeout, checkTimeoutsInterval,
                    callbackStorage, checkTimeoutsId, calls, closeCount,
                    errorEvents, thrown, foreign, serverVars >>

\* send() from the return of sendRaw: new Promise stores the continuations.
sendRegisters ==
    /\ stack # <<>>
    /\ stack[1].op = "send"
    /\ LET message == stack[1].message
       IN /\ calls' = Registered(message.id,
                                 NewPromise(message, closeCount, stack[1].draw))
          /\ callbackStorage' =
                 MapSet(callbackStorage, message.id,
                        CallbackInformation(message, Len(calls) + 1))
    /\ stack' = <<>>
    /\ UNCHANGED << now, options, instance, defaultTimeout, checkTimeoutsInterval, nextId,
                    socketStorage, channels, bindSocket, checkTimeoutsId,
                    draws, closeCount, errorEvents, thrown, wire, foreign,
                    serverVars >>

\* fireMulti(addresses, action, params): forEach starts over the addresses.
fireMulti(addresses, action, params) ==
    /\ stack = <<>>
    /\ addresses # <<>>
    /\ draws + Len(addresses) <= MaxDraws
    /\ stack' = << [op        |-> "fireMulti",
                    addresses |-> addresses,
                    rest      |-> addresses,
                    action    |-> action,
                    params    |-> params] >>
    /\ UNCHANGED << now, options, instance, defaultTimeout, checkTimeoutsInterval, nextId,
                    callbackStorage, socketStorage, channels, bindSocket,
                    checkTimeoutsId, calls, draws, closeCount, errorEvents,
                    thrown, wire, foreign, serverVars >>

\* One iteration of the forEach of fireMulti: fire() to the next address.
\* An exception of fire() leaves forEach and fireMulti.
forEachFire ==
    /\ stack # <<>>
    /\ stack[1].op = "fireMulti"
    /\ LET address == Head(stack[1].rest)
       IN /\ sendRaw(address, stack[1].action, stack[1].params, FALSE)
          /\ IF Throws(address)
             THEN /\ thrown' = thrown + 1
                  /\ stack' = <<>>
             ELSE /\ thrown' = thrown
                  /\ stack' = IF Tail(stack[1].rest) = <<>>
                              THEN <<>>
                              ELSE << [stack[1] EXCEPT !.rest = Tail(@)] >>
    /\ UNCHANGED << now, options, instance, defaultTimeout, checkTimeoutsInterval,
                    callbackStorage, checkTimeoutsId, calls, closeCount,
                    errorEvents, foreign, serverVars >>

\* A sweep that rejects one time unit early.
Expired_early(time) ==
    {id \in DOMAIN callbackStorage : ~(callbackStorage[id].expiresAt > time + 1)}

\* The ids one run of checkTimeouts rejects at time `time`.
Expired(time) ==
    {id \in DOMAIN callbackStorage : ~(callbackStorage[id].expiresAt > time)}

\* A sweeper that does not arm its timer again.
Rearmed_never(time) == [armed |-> FALSE, at |-> time + checkTimeoutsInterval]

\* setTimeout(() => this.checkTimeouts(), this.checkTimeoutsInterval) at `time`.
Rearmed(time) == [armed |-> TRUE, at |-> time + checkTimeoutsInterval]

\* The sweeper timer fires: reject and delete every expired entry, re-arm.
checkTimeouts ==
    /\ checkTimeoutsId.armed
    /\ now >= checkTimeoutsId.at
    /\ LET gone == Expired(now)
           hit == {callbackStorage[id].promise : id \in gone}
       IN /\ calls' = [i \in 1..Len(calls) |->
                          IF i \in hit THEN rejectTimeout(calls[i]) ELSE calls[i]]
          /\ callbackStorage' = MapDelete(callbackStorage, gone)
    /\ checkTimeoutsId' = Rearmed(now)
    /\ UNCHANGED << now, options, instance, defaultTimeout, checkTimeoutsInterval, nextId,
                    socketStorage, channels, bindSocket, draws, closeCount,
                    errorEvents, callVars, wire, foreign, serverVars >>

\* close()
close ==
    /\ closeCount < MaxCloses
    /\ closeCount' = closeCount + 1
    /\ bindSocket' = IF bindSocket # "null" THEN "closed" ELSE bindSocket
    /\ checkTimeoutsId' = [checkTimeoutsId EXCEPT !.armed = FALSE]
    /\ channels' = ClosedAll(channels, socketStorage)
    /\ socketStorage' = {}
    /\ LET hit == {callbackStorage[id].promise : id \in DOMAIN callbackStorage}
       IN calls' = [i \in 1..Len(calls) |->
                       IF i \in hit THEN rejectClosed(calls[i]) ELSE calls[i]]
    /\ UNCHANGED << now, options, instance, defaultTimeout, checkTimeoutsInterval, nextId,
                    callbackStorage, draws, errorEvents, callVars, wire,
                    foreign, serverVars >>

\* The object the listener hands to resolve: the decoded response with its
\* size attached.
ResponseObject(payload) ==
    LET decoded == JSON_parse(payload).value
    IN [ id        |-> decoded.id,
         data      |-> Get(decoded, "data"),
         sourceUri |-> Get(decoded, "sourceUri"),
         size      |-> ByteLength(payload) ]

\* A listener that swallows the decode error.
emitError_none(count) == count

\* this.emit('error', ...): one more 'error' event.
emitError(count) == count + 1

\* The bind socket's 'message' handler, run on one payload.
onResponse(message) ==
    /\ IF ~JSON_parse(message).ok
       THEN /\ errorEvents' = emitError(errorEvents)
            /\ UNCHANGED << callbackStorage, calls >>
       ELSE LET messageObject == ResponseObject(message)
            IN /\ errorEvents' = errorEvents
               /\ IF messageObject.id \notin DOMAIN callbackStorage
                  THEN UNCHANGED << callbackStorage, calls >>
                  ELSE LET c == callbackStorage[messageObject.id].promise
                       IN /\ callbackStorage' =
                                 MapDelete(callbackStorage, {messageObject.id})
                          /\ calls' = [calls EXCEPT ![c] = resolve(@, messageObject)]
    /\ UNCHANGED << now, options, instance, defaultTimeout, checkTimeoutsInterval, nextId,
                    socketStorage, channels, bindSocket, checkTimeoutsId,
                    draws, closeCount, callVars, serverVars >>

(***************************************************************************)
(* CommunicationServer.                                                    *)
(***************************************************************************)
\* A listen() that binds again whatever the socket's state.
listen_rebinds(onRequest) ==
    /\ handler' = onRequest
    /\ listenSocket' = "open"
    /\ UNCHANGED << now, clientVars, wire, foreign, srvSocketStorage,
                    srvChannels, listenErrors, suspended, answers, srvErrors >>

\* listen(onRequest): throws if the listen socket was ever created, else
\* keeps the handler and binds the socket.
listen(onRequest) ==
    /\ IF listenSocket # "null"
       THEN /\ Len(listenErrors) < MaxListenErrors
            /\ listenErrors' = Append(listenErrors, listenSocket)
            /\ UNCHANGED << listenSocket, handler >>
       ELSE /\ handler' = onRequest
            /\ listenSocket' = "open"
            /\ UNCHANGED listenErrors
    /\ UNCHANGED << now, clientVars, wire, foreign, srvSocketStorage,
                    srvChannels, suspended, answers, srvErrors >>

\* A close() that forgets the socket it has closed.
serverClose_releases ==
    /\ listenSocket = "open"
    /\ listenSocket' = "null"
    /\ UNCHANGED << now, clientVars, wire, foreign, srvSocketStorage,
                    srvChannels, handler, listenErrors, suspended, answers,
                    srvErrors >>

\* close() of the server: only the listen socket is closed.
serverClose ==
    /\ listenSocket = "open"
    /\ listenSocket' = "closed"
    /\ UNCHANGED << now, clientVars, wire, foreign, srvSocketStorage,
                    srvChannels, handler, listenErrors, suspended, answers,
                    srvErrors >>

\* A dispatcher that takes the next payload only when no handler invocation
\* is outstanding.
onRequest_serial(message) ==
    /\ suspended = <<>>
    /\ IF ~JSON_parse(message).ok
       THEN /\ srvErrors' = srvErrors + 1
            /\ UNCHANGED suspended
       ELSE /\ suspended' = Append(suspended, JSON_parse(message).value)
            /\ UNCHANGED srvErrors
    /\ UNCHANGED << now, clientVars, listenSocket, srvSocketStorage,
                    srvChannels, handler, listenErrors, answers >>

\* The listen socket's 'message' handler up to its await, run on one
\* payload: decode, call the handler.
onRequest(message) ==
    /\ IF ~JSON_parse(message).ok
       THEN /\ srvErrors' = srvErrors + 1
            /\ UNCHANGED suspended
       ELSE /\ suspended' = Append(suspended, JSON_parse(message).value)
            /\ UNCHANGED srvErrors
    /\ UNCHANGED << now, clientVars, listenSocket, srvSocketStorage,
                    srvChannels, handler, listenErrors, answers >>

\* A response that carries the request's parameter instead of the result.
ResponseMessage_params(messageObject, result) ==
    [id |-> messageObject.id, data |-> messageObject.params.value,
     sourceUri |-> getListenUri]

\* The TResponseMessage the dispatcher builds from the handler's result.
ResponseMessage(messageObject, result) ==
    [id |-> messageObject.id, data |-> result, sourceUri |-> getListenUri]

\* A reply address that gets the protocol prefixed once more.
ReplyUri_prefixed(messageObject) == getUri(messageObject.sourceUri)

\* Where the dispatcher sends the reply.
ReplyUri(messageObject) == messageObject.sourceUri

\* The handler invoked for suspended[i] returns `result`; the dispatcher
\* resumes and, if a response is wanted, sends it with sendResponse.
handlerReturns(i, result) ==
    /\ i \in 1..Len(suspended)
    /\ suspended' = RemoveAt(suspended, i)
    /\ LET messageObject == suspended[i]
       IN IF ~messageObject.responseWanted
          THEN UNCHANGED << wire, srvSocketStorage, srvChannels, answers >>
          ELSE /\ srvSocketStorage' = srvSocketStorage \cup {ReplyUri(messageObject)}
               /\ srvChannels' = IF Cached(srvSocketStorage, ReplyUri(messageObject))
                                 THEN srvChannels
                                 ELSE Opened(srvChannels, ReplyUri(messageObject))
               /\ wire' = Push(ReplyUri(messageObject),
                               JSON_stringify(ResponseMessage(messageObject, result)))
               /\ answers' = answers \cup {[id |-> messageObject.id, result |-> result]}
    /\ UNCHANGED << now, clientVars, foreign, listenSocket, handler,
                    listenErrors, srvErrors >>

\* The handler invoked for suspended[i] throws or its promise rejects: the
\* dispatcher's await throws and nothing is sent.
handlerFails(i) ==
    /\ i \in 1..Len(suspended)
    /\ suspended' = RemoveAt(suspended, i)
    /\ UNCHANGED << now, clientVars, wire, foreign, listenSocket,
                    srvSocketStorage, srvChannels, handler, listenErrors,
                    answers, srvErrors >>

(***************************************************************************)
(* Environment: the clock and foreign peers.                               *)
(***************************************************************************)
\* A timer callback runs when the clock reaches its deadline: the clock does
\* not move on while the sweeper is due.
Tick ==
    /\ now < MaxTime
    /\ ~(checkTimeoutsId.armed /\ now >= checkTimeoutsId.at)
    /\ now' = now + 1
    /\ UNCHANGED << clientVars, wire, foreign, serverVars >>

\* The pull socket bound at uri hands the oldest payload queued by the
\* model's own peer to its 'message' handler.
Deliver(uri) ==
    /\ wire[uri] # <<>>
    /\ wire' = [wire EXCEPT ![uri] = Tail(@)]
    /\ UNCHANGED foreign
    /\ \/ uri = getBindUri /\ bindSocket = "open" /\ onResponse(Head(wire[uri]))
       \/ uri = getListenUri /\ listenSocket = "open" /\ onRequest(Head(wire[uri]))

\* A foreign peer pushes a payload to the pull socket bound at uri; a pull
\* socket queues each peer apart, so the payload reaches the handler at any
\* time.
DeliverForeign(uri, payload) ==
    /\ foreign < MaxForeign
    /\ foreign' = foreign + 1
    /\ UNCHANGED wire
    /\ \/ uri = getBindUri /\ bindSocket = "open" /\ onResponse(payload)
       \/ uri = getListenUri /\ listenSocket = "open" /\ onRequest(payload)

\* The well-formed responses a peer may send the client.
PeerResponses ==
    {JSON_stringify([id |-> i, data |-> r, sourceUri |-> getListenUri]) :
        i \in 0..MAX_ID, r \in PeerResults}

(***************************************************************************)
(* Specification.                                                          *)
(***************************************************************************)
\* new CommunicationClient(options): the fields and the armed sweeper timer.
ClientConstructed ==
    /\ now = 0
    /\ options = ClientOptions
    /\ instance = "constructed"
    /\ defaultTimeout = constructor(ClientOptions).defaultTimeout
    /\ checkTimeoutsInterval = constructor(ClientOptions).checkTimeoutsInterval
    /\ checkTimeoutsId = constructor(ClientOptions).checkTimeoutsId
    /\ nextId = 0
    /\ callbackStorage = <<>>
    /\ socketStorage = {}
    /\ channels = <<>>
    /\ bindSocket = "null"
    /\ calls = <<>>
    /\ draws = 0
    /\ closeCount = 0
    /\ errorEvents = 0
    /\ stack = <<>>
    /\ thrown = 0
    /\ foreign = 0

\* new CommunicationServer(options)
ServerConstructed ==
    /\ listenSocket = "null"
    /\ srvSocketStorage = {}
    /\ srvChannels = <<>>
    /\ handler = "undefined"
    /\ listenErrors = <<>>
    /\ suspended = <<>>
    /\ answers = {}
    /\ srvErrors = 0

Init ==
    /\ ClientConstructed
    /\ ServerConstructed
    /\ wire = [u \in BoundUris |-> <<>>]

\* The client and the server on one transport; foreign peers push garbage.
Next ==
    \/ \E a \in Addresses, act \in Actions, p \in Params :
          draws < MaxSystemDraws /\ send(a, act, p)
    \/ \E a \in Addresses, act \in Actions, p \in Params :
          draws < MaxSystemDraws /\ fire(a, act, p)
    \/ checkTimeouts
    \/ close
    \/ listenSocket = "null" /\ listen("onRequestA")
    \/ serverClose
    \/ \E i \in 1..MaxSystemDraws, r \in HandlerResults : handlerReturns(i, r)
    \/ \E i \in 1..MaxSystemDraws : handlerFails(i)
    \/ Tick
    \/ \E u \in BoundUris : Deliver(u)
    \/ \E u \in BoundUris : DeliverForeign(u, GarbagePayload)

Spec == Init /\ [][Next]_vars

\* The client alone: its requests leave for peers the model does not follow,
\* and any peer may push any payload to its bind socket.
ClientInit ==
    /\ ClientConstructed
    /\ ServerConstructed
    /\ wire = [u \in {getBindUri} |-> <<>>]

ClientNext ==
    \/ \E a \in PeerAddresses, act \in Actions, p \in Params : send(a, act, p)
    \/ \E a \in PeerAddresses, act \in Actions, p \in Params : fire(a, act, p)
    \/ checkTimeouts
    \/ close
    \/ Tick
    \/ \E m \in PeerResponses \cup {GarbagePayload} : DeliverForeign(getBindUri, m)

ClientSpec == ClientInit /\ [][ClientNext]_vars

\* The well-formed requests a peer may send the server.
PeerRequests ==
    {JSON_stringify([id             |-> i,
                     createdAt      |-> 0,
                     action         |-> "echo",
                     params         |-> [value |-> Num7, timeout |-> 0],
                     responseWanted |-> w,
                     expiresAt      |-> 2,
                     sourceUri      |-> getBindUri]) :
        i \in 0..1, w \in BOOLEAN}

\* The server alone: its owner calls listen() and close() at any time, with
\* any handler, and any peer may push any payload to its listen socket.
ServerInit ==
    /\ ClientConstructed
    /\ ServerConstructed
    /\ wire = [u \in BoundUris |-> <<>>]

ServerNext ==
    \/ \E h \in Handlers : listen(h)
    \/ serverClose
    \/ \E m \in PeerRequests \cup {GarbagePayload} : DeliverForeign(getListenUri, m)
    \/ \E i \in 1..MaxForeign, r \in HandlerResults : handlerReturns(i, r)
    \/ \E i \in 1..MaxForeign : handlerFails(i)

ServerSpec == ServerInit /\ [][ServerNext]_vars

\* The client and the server, send() taken in its two steps: the server is
\* another process and runs at any time, the client's callbacks and calls
\* run to completion.
StepNext ==
    \/ \E a \in Addresses, act \in Actions, p \in Params :
          draws < MaxSystemDraws /\ sendTransmits(a, act, p)
    \/ sendRegisters
    \/ RunToCompletion /\ checkTimeouts
    \/ RunToCompletion /\ close
    \/ RunToCompletion /\ Tick
    \/ RunToCompletion /\ Deliver(getBindUri)
    \/ \E m \in PeerResponses \cup {GarbagePayload} :
          RunToCompletion /\ DeliverForeign(getBindUri, m)
    \/ listenSocket = "null" /\ listen("onRequestA")
    \/ Deliver(getListenUri)
    \/ \E i \in 1..MaxSystemDraws, r \in HandlerResults : handlerReturns(i, r)

StepSpec == Init /\ [][StepNext]_vars

\* The address lists fireMulti() is called with.
AddressLists ==
    LET A == {ServerAddress, VoidAddress, BadAddress}
    IN {<< a >> : a \in A} \cup {<< a, b >> : a \in A, b \in A}

\* The client alone, fireMulti() taken one address at a time.
MultiNext ==
    \/ \E l \in AddressLists, act \in Actions, p \in Params : fireMulti(l, act, p)
    \/ forEachFire
    \/ \E a \in Addresses \cup {BadAddress}, act \in Actions, p \in Params :
          RunToCompletion /\ fire(a, act, p)
    \/ \E a \in Addresses \cup {BadAddress}, act \in Actions, p \in Params :
          RunToCompletion /\ send(a, act, p)
    \/ RunToCompletion /\ close

MultiSpec == Init /\ [][MultiNext]_vars

\* Before new CommunicationClient(options): no field is set, no timer armed.
ConfigInit ==
    /\ now = 0
    /\ options \in OptionSets
    /\ instance = "none"
    /\ defaultTimeout = 0
    /\ checkTimeoutsInterval = 0
    /\ checkTimeoutsId = [armed |-> FALSE, at |-> 0]
    /\ nextId = 0
    /\ callbackStorage = <<>>
    /\ socketStorage = {}
    /\ channels = <<>>
    /\ bindSocket = "null"
    /\ calls = <<>>
    /\ draws = 0
    /\ closeCount = 0
    /\ errorEvents = 0
    /\ stack = <<>>
    /\ thrown = 0
    /\ foreign = 0
    /\ ServerConstructed
    /\ wire = [u \in BoundUris |-> <<>>]

\* A client is constructed with any options and then sends and fires with
\* any per-call timeout.
ConfigNext ==
    \/ construct
    \/ \E act \in Actions, p \in ConfigParams :
          /\ instance = "constructed"
          /\ draws < MaxConfigDraws
          /\ send(ServerAddress, act, p)
    \/ \E act \in Actions, p \in ConfigParams :
          /\ instance = "constructed"
          /\ draws < MaxConfigDraws
          /\ fire(ServerAddress, act, p)

ConfigSpec == ConfigInit /\ [][ConfigNext]_vars

(***************************************************************************)
(* Helpers of the properties.                                              *)
(***************************************************************************)
Calls == 1..Len(calls)

\* The calls whose continuations the store still holds.
Tracked == {callbackStorage[id].promise : id \in DOMAIN callbackStorage}

\* Calls of resolve() and of reject(TimeoutError) on call c.
Settlements(c) == calls[c].resolves + calls[c].timeouts

\* The time of the sweeper's last run (0 is the construction).
LastSweep == checkTimeoutsId.at - checkTimeoutsInterval

UsesDefaultTimeout(c) == calls[c].expiresAt = calls[c].createdAt + defaultTimeout

\* The id a well-formed response payload carries.
ResponseId(payload) == JSON_parse(payload).value.id

(***************************************************************************)
(* C1                                                                      *)
(***************************************************************************)
\* C1: the listener and the sweeper together invoke a continuation of a call
\* at most once, and only for a call that is still in the store and still
\* pending, which they remove; a call no longer in the store is never touched
\* again; a response for an id that is not in the store changes nothing and
\* emits no error.
C1_SettledAtMostOnce ==
    /\ [](\A c \in Calls : /\ Settlements(c) <= 1
                           /\ Settlements(c) = 1 => c \notin Tracked)
    /\ [][ /\ \A c \in Calls :
                /\ Settlements(c)' > Settlements(c) =>
                      /\ c \in Tracked /\ c \notin Tracked'
                      /\ calls[c].state = "pending"
                      /\ Settlements(c)' = 1
                /\ c \notin Tracked => calls'[c] = calls[c]
           /\ \A m \in PeerResponses :
                (DeliverForeign(getBindUri, m) /\ ResponseId(m) \notin DOMAIN callbackStorage)
                   => UNCHANGED << calls, callbackStorage, errorEvents >> ]_vars

\* One call was resolved by a response, and a later sweep that ran at or
\* after that call's expiry rejected another call.
C1_Witness ==
    \E c1, c2 \in Calls :
        /\ calls[c1].resolves = 1 /\ calls[c1].timeouts = 0
        /\ calls[c2].timeouts = 1 /\ calls[c2].resolves = 0
        /\ calls[c1].expiresAt <= calls[c2].expiresAt

(***************************************************************************)
(* C3                                                                      *)
(***************************************************************************)
\* C3: once close() has run, and no send has been issued since, every call
\* that was pending is rejected with the closed error and the store is empty.
C3_CloseEmptiesStore ==
    (closeCount > 0 /\ \A c \in Calls : calls[c].epoch = 0) =>
        /\ \A c \in Calls : calls[c].state # "pending" \/ calls[c].overwritten
        /\ callbackStorage = <<>>

(***************************************************************************)
(* C5                                                                      *)
(***************************************************************************)
\* C5: the future of a send() issued after close() is rejected with the
\* closed error.
C5_SendAfterCloseFails ==
    \A c \in Calls :
        calls[c].epoch > 0 =>
            calls[c].state = "rejected" /\ calls[c].outcome = << ClosedError >>

(***************************************************************************)
(* C8                                                                      *)
(***************************************************************************)
\* C8: two sends at most MAX_ID id draws apart (so any N <= MAX_ID + 1
\* sends in a row) carry different ids.
C8_DistinctIds ==
    \A c1, c2 \in Calls :
        (c1 < c2 /\ calls[c2].draw - calls[c1].draw <= MAX_ID)
            => calls[c1].id # calls[c2].id

\* MAX_ID + 1 sends in a row have been issued.
C8_Witness ==
    \E c \in Calls :
        /\ c + MAX_ID \in Calls
        /\ calls[c + MAX_ID].draw = calls[c].draw + MAX_ID

(***************************************************************************)
(* C10                                                                     *)
(***************************************************************************)
\* C10: an undecodable payload handed to the client's listener emits exactly
\* one 'error' event, leaves the store and every promise as they were, and
\* leaves the listener bound.
C10_DecodeError ==
    [][ DeliverForeign(getBindUri, GarbagePayload) =>
           /\ errorEvents' = errorEvents + 1
           /\ UNCHANGED << callbackStorage, calls >>
           /\ bindSocket' = "open" ]_vars

\* The listener has met one undecodable payload while a call was pending,
\* and has resolved a call as well.
C10_Witness ==
    /\ errorEvents = 1
    /\ foreign = 2
    /\ \E c \in Calls : calls[c].resolves = 1

(***************************************************************************)
(* C2                                                                      *)
(***************************************************************************)
\* The sweeper timer keeps firing while the client is open, and the clock
\* keeps running.
FairClientSpec == ClientSpec /\ WF_vars(checkTimeouts) /\ WF_vars(Tick)

\* C2 as stated: the future of every send issued before close() is
\* eventually settled.
C2_AlwaysSettled ==
    \A c \in 1..MaxDraws :
        (c \in Calls /\ calls[c].epoch = 0)
            ~> (c \in Calls /\ calls[c].state # "pending")

\* C2: the future of every send issued before close() whose store entry is
\* not replaced by a later send is eventually settled, it settles once (a
\* settled future keeps its outcome), and its outcome is a response, the
\* timeout error or the closed error.
C2_EventuallySettled ==
    /\ \A c \in 1..MaxDraws :
          (c \in Calls /\ calls[c].epoch = 0)
              ~> (c \in Calls /\ (calls[c].state # "pending" \/ calls[c].overwritten))
    /\ [][ \A c \in Calls :
              calls[c].state # "pending" =>
                  /\ calls'[c].state = calls[c].state
                  /\ calls'[c].outcome = calls[c].outcome ]_vars
    /\ [](\A c \in Calls :
              /\ calls[c].state = "resolved" => calls[c].resolves >= 1
              /\ calls[c].state = "rejected" =>
                    \/ calls[c].outcome = << TimeoutError >> /\ calls[c].timeouts >= 1
                    \/ calls[c].outcome = << ClosedError >> /\ calls[c].closes >= 1)

\* Three sends issued before close(): one settled by a response, one by the
\* sweeper, one by close().
C2_Witness ==
    \E c1, c2, c3 \in Calls :
        /\ calls[c1].epoch = 0 /\ calls[c2].epoch = 0 /\ calls[c3].epoch = 0
        /\ calls[c1].state = "resolved"
        /\ calls[c2].outcome = << TimeoutError >>
        /\ calls[c3].outcome = << ClosedError >>

(***************************************************************************)
(* C4                                                                      *)
(***************************************************************************)
\* C4 as stated: on an open client, a send with the default timeout that got
\* no response is rejected by the first sweep at or after its expiry, so no
\* such sweep has passed while its future is still pending.
C4_RejectedByFirstSweep ==
    closeCount = 0 =>
        \A c \in Calls :
            (UsesDefaultTimeout(c) /\ calls[c].state = "pending")
                => LastSweep < calls[c].expiresAt

\* C4: with the sweeper running every checkTimeoutsInterval, on a client
\* that is not closed, a send at time t with the default timeout whose store
\* entry is not replaced by a later send and that gets no response is
\* rejected with the timeout error at a time r with
\* t + defaultTimeout <= r <= t + defaultTimeout + checkTimeoutsInterval.
C4_TimeoutWindow ==
    /\ [][ \A c \in Calls :
              (UsesDefaultTimeout(c) /\ calls'[c].timeouts > calls[c].timeouts) =>
                  /\ calls[c].createdAt + defaultTimeout <= now
                  /\ now <= calls[c].createdAt + defaultTimeout + checkTimeoutsInterval
                  /\ calls'[c].outcome = << TimeoutError >> ]_vars
    /\ [](closeCount = 0 =>
            \A c \in Calls :
                (/\ UsesDefaultTimeout(c)
                 /\ calls[c].state = "pending"
                 /\ ~calls[c].overwritten) =>
                    /\ LastSweep < calls[c].expiresAt
                    /\ now <= calls[c].createdAt + defaultTimeout + checkTimeoutsInterval)

\* A call whose expiry fell between two sweeps has just been rejected, one
\* time unit after its expiry.
C4_Witness ==
    \E c \in Calls :
        /\ UsesDefaultTimeout(c)
        /\ calls[c].outcome = << TimeoutError >>
        /\ now = calls[c].expiresAt + 1
        /\ LastSweep = now

(***************************************************************************)
(* C9                                                                      *)
(***************************************************************************)
\* C9: fire() leaves the store and every promise as they were and does not
\* bind the client's listener.
C9_FireFrame ==
    [][ (\E a \in Addresses, act \in Actions, p \in Params : fire(a, act, p)) =>
           UNCHANGED << callbackStorage, calls, bindSocket, errorEvents >> ]_vars

\* A fire towards the listening server, issued after a send that is still
\* pending.
C9_Witness ==
    /\ listenSocket = "open"
    /\ draws = 2
    /\ Len(calls) = 1
    /\ calls[1].draw = 0
    /\ calls[1].state = "pending"
    /\ closeCount = 0
    /\ getUri(ServerAddress) \in socketStorage

\* fire() on a client that has not sent anything: the listener stays unbound.
C9_WitnessUnbound ==
    /\ draws = 1 /\ calls = <<>> /\ bindSocket = "null"

C6_Decoded(id, result) ==
    ResponseObject(JSON_stringify(
        [id |-> id, data |-> result, sourceUri |-> getListenUri]))

C6_WitnessNaN ==
    \E c \in Calls :
        /\ calls[c].state = "resolved"
        /\ calls[c].outcome[1].data = Null
        /\ answers = {[id |-> calls[c].id, result |-> NaN]}

(***************************************************************************)
(* C7                                                                      *)
(***************************************************************************)
\* The payloads pushed to the client's bind uri by a step.
Replied(i, result) ==
    wire' = [wire EXCEPT ![suspended[i].sourceUri] =
                Append(@, JSON_stringify([id        |-> suspended[i].id,
                                          data      |-> result,
                                          sourceUri |-> getListenUri]))]

\* C7: when the handler of a decoded request returns, the server pushes
\* nothing if the request did not want a response, and otherwise pushes
\* exactly one encoded Response Record {id: the request's id, data: the
\* handler's result, sourceUri: the server's uri} to the request's sourceUri;
\* a failing handler and every other step of the server push nothing.
C7_ReplyPolicy ==
    [][ /\ \A i \in 1..Len(suspended), r \in HandlerResults :
              handlerReturns(i, r) =>
                  IF suspended[i].responseWanted
                  THEN Replied(i, r)
                  ELSE wire' = wire
        /\ (\E i \in 1..Len(suspended) : handlerFails(i)) => wire' = wire
        /\ ((\E h \in Handlers : listen(h)) \/ serverClose \/ (\E u \in BoundUris : Deliver(u))
               \/ (\E u \in BoundUris : DeliverForeign(u, GarbagePayload)))
              => \A u \in BoundUris : Len(wire'[u]) <= Len(wire[u]) ]_vars

\* The server has handled a send and a fire of the client: one reply is on
\* its way, none for the fire.
C7_Witness ==
    /\ draws = 2 /\ Len(calls) = 1
    /\ closeCount = 0
    /\ socketStorage = {getUri(ServerAddress)}
    /\ wire[getListenUri] = <<>> /\ suspended = <<>> /\ srvErrors = 0
    /\ Len(wire[getBindUri]) = 1
    /\ Cardinality(answers) = 1

(***************************************************************************)
(* C18                                                                     *)
(***************************************************************************)
\* C18: a send() that is assigned an id still present in the store replaces
\* the entry: the store then holds the newer call under that id and the
\* older call is tracked no more; the store never holds a call that a later
\* call with the same id has followed, and neither the listener nor the
\* sweeper ever settles a replaced call.
C18_NewerReplaces ==
    /\ [](\A c \in Calls :
            /\ c \in Tracked => \A d \in Calls : d > c => calls[d].id # calls[c].id
            /\ calls[c].overwritten => c \notin Tracked /\ Settlements(c) = 0)
    /\ [][ \A a \in PeerAddresses, act \in Actions, p \in Params :
              (send(a, act, p) /\ nextId \in DOMAIN callbackStorage) =>
                  /\ callbackStorage'[nextId].promise = Len(calls) + 1
                  /\ calls'[Len(calls) + 1].id = nextId
                  /\ calls'[callbackStorage[nextId].promise].overwritten
                  /\ DOMAIN callbackStorage' = DOMAIN callbackStorage ]_vars

\* The counter has wrapped onto the id of a call still in the store; the
\* response for that id has resolved the newer call and the older one is
\* still pending.
C18_Witness ==
    \E c, d \in Calls :
        /\ c < d
        /\ calls[c].id = calls[d].id
        /\ calls[c].overwritten /\ calls[c].state = "pending"
        /\ calls[d].state = "resolved"

\* The same, the newer call being rejected by the sweeper.
C18_WitnessTimeout ==
    \E c, d \in Calls :
        /\ c < d
        /\ calls[c].id = calls[d].id
        /\ calls[c].overwritten /\ calls[c].state = "pending"
        /\ calls[d].outcome = << TimeoutError >>

(***************************************************************************)
(* C19                                                                     *)
(***************************************************************************)
\* C19: whatever handler invocations are outstanding, the listening server
\* takes the next payload of its socket, and every outstanding invocation
\* can complete, in any order; the reply to a request whose handler has not
\* completed has not been sent.
C19_NoSerialisation ==
    /\ (listenSocket = "open" /\ wire[getListenUri] # <<>>)
          => ENABLED Deliver(getListenUri)
    /\ \A i \in 1..Len(suspended) :
          /\ \A r \in HandlerResults : ENABLED handlerReturns(i, r)
          /\ suspended[i].responseWanted =>
                /\ \A a \in answers : a.id # suspended[i].id
                /\ \A k \in 1..Len(wire[getBindUri]) :
                      JSON_parse(wire[getBindUri][k]).ok =>
                          ResponseId(wire[getBindUri][k]) # suspended[i].id

\* Request A (id 0) was received first and its handler is still running;
\* request B (id 1) was received after it and has been answered.
C19_Witness ==
    /\ Len(suspended) = 1
    /\ suspended[1].id = 0 /\ suspended[1].responseWanted
    /\ \E r \in HandlerResults : answers = {[id |-> 1, result |-> r]}
    /\ Len(wire[getBindUri]) = 1
    /\ ResponseId(wire[getBindUri][1]) = 1

(***************************************************************************)
(* C16                                                                     *)
(***************************************************************************)
\* C16: a close() on a client that is already closed, and on which nothing
\* was sent since, invokes no continuation and leaves the listener, the
\* channels, the timer and the store as the first close() left them.
C16_CloseIdempotent ==
    [][ (closeCount >= 1 /\ socketStorage = {} /\ close) =>
           UNCHANGED << calls, callbackStorage, socketStorage, bindSocket,
                        checkTimeoutsId >> ]_vars

(***************************************************************************)
(* C13                                                                     *)
(***************************************************************************)
\* C13: the client and the server each have at most one open push socket
\* per uri, and it is the cached one; a step that needs a cached uri opens
\* nothing; a channel is closed only by the client's close(), which closes
\* all of them and leaves the cache empty.
C13_OneChannelPerUri ==
    /\ [](/\ DOMAIN channels = socketStorage
          /\ \A u \in DOMAIN channels : channels[u] = 1
          /\ DOMAIN srvChannels = srvSocketStorage
          /\ \A u \in DOMAIN srvChannels : srvChannels[u] = 1)
    /\ [][ /\ (\A u \in DOMAIN channels : u \in DOMAIN channels')
              \/ (closeCount' = closeCount + 1 /\ channels' = <<>> /\ socketStorage' = {})
           /\ closeCount' = closeCount + 1 => channels' = <<>> /\ socketStorage' = {}
           /\ \A u \in DOMAIN srvChannels : u \in DOMAIN srvChannels' ]_vars

\* Two sends went to the server through one channel and two replies came
\* back through one channel.
C13_Witness ==
    /\ draws = 2 /\ Len(calls) = 2 /\ closeCount = 0
    /\ channels = (getUri(ServerAddress) :> 1)
    /\ srvChannels = (getBindUri :> 1)
    /\ Cardinality(answers) = 2

\* close() has closed the channel, and a later send has opened a new one.
C13_WitnessReopened ==
    /\ draws = 2 /\ closeCount = 1
    /\ \E c \in Calls : calls[c].epoch = 1
    /\ channels = (getUri(ServerAddress) :> 1)

(***************************************************************************)
(* C11                                                                     *)
(***************************************************************************)
\* C11: listen() on a server whose socket is bound throws, and changes
\* neither the socket nor the handler nor anything else of the server; once
\* the socket exists the handler is never replaced.
C11_ListenTwiceFails ==
    [][ /\ \A h \in Handlers :
              (listenSocket = "open" /\ listen(h)) =>
                  /\ listenErrors' = Append(listenErrors, "open")
                  /\ UNCHANGED << listenSocket, handler, srvSocketStorage,
                                  srvChannels, suspended, answers, srvErrors, wire >>
        /\ listenSocket # "null" => handler' = handler
        /\ listenSocket = "open" => listenSocket' \in {"open", "closed"} ]_vars

\* A second listen(), with another handler, has failed on the bound server,
\* which went on serving.
C11_Witness ==
    /\ listenSocket = "open"
    /\ handler = "onRequestA"
    /\ listenErrors = << "open" >>
    /\ answers # {}

(***************************************************************************)
(* C20                                                                     *)
(***************************************************************************)
\* C20: a listen socket, once created, is never forgotten: it is open or
\* closed, a closed one stays closed, and every listen() after close()
\* throws and leaves the handler and the socket as they are.
C20_NeverRebound ==
    [][ /\ listenSocket # "null" => listenSocket' # "null"
        /\ listenSocket = "closed" => listenSocket' = "closed"
        /\ \A h \in Handlers :
              (listenSocket = "closed" /\ listen(h)) =>
                  /\ listenErrors' = Append(listenErrors, "closed")
                  /\ UNCHANGED << listenSocket, handler >> ]_vars

\* listen() has failed twice on the closed server.
C20_Witness ==
    /\ listenSocket = "closed"
    /\ listenErrors = << "closed", "closed" >>

(***************************************************************************)
(* C17                                                                     *)
(***************************************************************************)
\* The request of the send() on the stack.
InSend == stack # <<>> /\ stack[1].op = "send"

\* C17: the listener never handles a response carrying the id of a request
\* that send() has transmitted and not yet registered; when send() returns
\* the call is in the store; and every request that was transmitted by a
\* send() that has returned has its promise.
C17_RegisteredBeforeResponse ==
    /\ [][ /\ (/\ Deliver(getBindUri)
               /\ JSON_parse(Head(wire[getBindUri])).ok
               /\ InSend)
              => ResponseId(Head(wire[getBindUri])) # stack[1].message.id
           /\ \A m \in PeerResponses :
                (DeliverForeign(getBindUri, m) /\ InSend)
                   => ResponseId(m) # stack[1].message.id
           /\ (InSend /\ stack' = <<>>) =>
                /\ stack[1].message.id \in DOMAIN callbackStorage'
                /\ callbackStorage'[stack[1].message.id].promise = Len(calls')
                /\ calls'[Len(calls')].state = "pending" ]_vars
    /\ [](\A k \in 1..Len(wire[getListenUri]) :
            LET request == JSON_parse(wire[getListenUri][k]).value
            IN (request.responseWanted
                  /\ ~(InSend /\ stack[1].message.id = request.id))
                  => \E c \in Calls : calls[c].id = request.id)

\* The server's reply to a request is already at the client's socket while
\* the send() that transmitted the request has not registered the call.
C17_Witness ==
    /\ InSend
    /\ bindSocket = "open"
    /\ wire[getBindUri] # <<>>
    /\ JSON_parse(Head(wire[getBindUri])).ok
    /\ ResponseId(Head(wire[getBindUri])) = stack[1].message.id

\* The call of a send() whose reply had arrived before it was registered is
\* resolved: the second send() was answered before the first reply was
\* handled, and both are resolved.
C17_WitnessResolved ==
    /\ stack = <<>>
    /\ Len(calls) = 2
    /\ \A c \in Calls : calls[c].state = "resolved"

(***************************************************************************)
(* C12                                                                     *)
(***************************************************************************)
\* C12: when fireMulti() returns or throws, every address of its list that
\* the transport accepts has a channel, over which its request was sent.
C12_FireMultiIndependent ==
    [][ (stack # <<>> /\ stack[1].op = "fireMulti" /\ stack' = <<>>) =>
           \A k \in 1..Len(stack[1].addresses) :
               Connects(getUri(stack[1].addresses[k]))
                   => getUri(stack[1].addresses[k]) \in socketStorage' ]_vars

(***************************************************************************)
(* C15                                                                     *)
(***************************************************************************)
\* C15: when the defaultTimeout given to the constructor is smaller than 2,
\* no client is constructed and no sweeper timer is armed.
C15_SmallDefaultTimeoutRejected ==
    options.defaultTimeout < 2 =>
        instance # "constructed" /\ ~checkTimeoutsId.armed

(***************************************************************************)
(* C14                                                                     *)
(***************************************************************************)
\* The requests pushed towards the server and not yet pulled.
RequestsSent ==
    {JSON_parse(wire[getListenUri][k]).value : k \in 1..Len(wire[getListenUri])}

\* C14: every Request Record that send() or fire() has built expires at
\* least 2 time units after its creation.
C14_TimeoutAtLeastTwo ==
    \A request \in RequestsSent : request.expiresAt - request.createdAt >= 2

====
